---- MODULE Spec2Model ----
(***************************************************************************)
(* The description request queue of src/utils/openai.ts (RATE_LIMIT,       *)
(* processQueue, generateDetailedDescription, generateBasicDescription)    *)
(* the webcam frame sampler of src/App.tsx, and detectMovement and         *)
(* analyzeVideo of src/utils/model.ts, as one state machine.               *)
(*                                                                         *)
(* JavaScript runs one handler at a time: a handler (a call from the UI, a *)
(* timer callback, the completion of the provider request) runs together   *)
(* with the promise continuations it releases until every one of them has  *)
(* reached its next await.  Each action below is one such handler.         *)
(*                                                                         *)
(* Time is kept relative (time left on a timer, age of a timestamp) and    *)
(* advances in steps of TimeStep; every duration of the program is a       *)
(* multiple of it.  A timer fires when its time is up, before time         *)
(* advances further.                                                       *)
(***************************************************************************)
EXTENDS Integers, Sequences, FiniteSets, TLC

\* ---------------------------------------------------------------- bounds
\* Calls of generateDetailedDescription made in one behaviour.
MaxCalls == 2
\* Calls made in one behaviour by a burst of callers that all carry a frame
\* (enough for two tasks to wait in the queue behind a finished one).
MaxBurst == 3
\* Webcam frame analyses (analyzeFrame calls of analyzeWebcamFrame) started in
\* one behaviour.
MaxFrames == 2
\* Steps of time the webcam loop is followed for after the page has loaded
\* (fewer than resetInterval takes: the window is not reset before).
MaxAppTicks == 12
\* People and objects of a scene descriptor handed to the formatter.
MaxPeople == 2
MaxObjects == 2
\* Steps of time the position map is followed for.
MaxTrackTicks == 3
\* Frame analyses (analyzeFrame calls of analyzeVideo's interval) started in
\* one behaviour, and the steps of time an uploaded video is followed for.
MaxVideoFrames == 2
MaxVideoTicks == 3

\* ------------------------------------------------------ program constants
tokensPerMin == 30000
initialBackoff == 1000
maxBackoff == 60000
maxRetries == 3
resetInterval == 60000
\* cooldownThreshold is 0.8: tokensPerMin * cooldownThreshold, in integers.
CooldownLimit == (tokensPerMin * 8) \div 10
resetBackoff == 1000
minCooldownWait == 1000
backoffFloor == 1000
minSpacing == 1000
\* App.tsx, analyzeWebcamFrame: the interval of the live-webcam commentary.
webcamInterval == 10000
\* Every duration above is a multiple of the minimum spacing.
TimeStep == minSpacing
\* model.ts lines 74 and 78: the displacement, in pixels, above which an axis
\* counts as moving.
movementThreshold == 10
\* The age above which the spec has a tracked position purged (the code has
\* no such window).
purgeWindow == 2000
\* model.ts line 321: the period of analyzeVideo's setInterval.
videoInterval == 1000
\* The speed, in pixels per second, of the spec's example of a sudden
\* movement (200 px in 0.1 s); the code has no such threshold.
suddenExampleSpeed == 2000

Max(a, b) == IF a >= b THEN a ELSE b
Min(a, b) == IF a <= b THEN a ELSE b

RECURSIVE Pow2(_)
Pow2(n) == IF n = 0 THEN 1 ELSE 2 * Pow2(n - 1)

RECURSIVE Join(_, _)
Join(parts, sep) ==
    IF Len(parts) = 0 THEN ""
    ELSE IF Len(parts) = 1 THEN parts[1]
    ELSE parts[1] \o sep \o Join(Tail(parts), sep)

\* ------------------------------------------------------- scene descriptors
\* A missing optional field (frame, error, annotation.ageRange, ...) is "",
\* which JavaScript treats like undefined in every test the code makes.
FrameData == "data:image/jpeg;base64,AAAA"

PersonLeft ==
    [pose |-> "standing", position |-> "in the center", activity |-> "",
     movement |-> "moving left",
     annotation |-> [ageRange |-> "25-35", expression |-> "happy"]]

SceneOnePerson ==
    [people |-> <<PersonLeft>>, objects |-> <<>>, frame |-> FrameData,
     error |-> "", isScenic |-> FALSE]
SceneObjects ==
    [people |-> <<>>, objects |-> <<"chair", "cup">>, frame |-> FrameData,
     error |-> "", isScenic |-> FALSE]
SceneNoFrame ==
    [people |-> <<PersonLeft>>, objects |-> <<"cup">>, frame |-> "",
     error |-> "", isScenic |-> FALSE]
SceneError ==
    [people |-> <<>>, objects |-> <<>>, frame |-> FrameData,
     error |-> "camera unavailable", isScenic |-> FALSE]

Scenes == {SceneOnePerson, SceneObjects, SceneNoFrame, SceneError}

\* The descriptors the fallback formatter is tried on: up to MaxPeople people
\* (with and without annotation, movement and activity), up to MaxObjects
\* objects, and the optional fields: frame, error, isScenic.
PersonStill ==
    [pose |-> "sitting", position |-> "on the left side",
     activity |-> "looking at phone or device", movement |-> "standing still",
     annotation |-> [ageRange |-> "30-40", expression |-> "focused"]]
PersonBare ==
    [pose |-> "detected", position |-> "in the center in the background",
     activity |-> "entering frame", movement |-> "staying still",
     annotation |-> [ageRange |-> "", expression |-> ""]]
Persons == {PersonLeft, PersonStill, PersonBare}
ObjectNames == {"chair", "cup"}

SeqsUpTo(S, n) == UNION {[1..k -> S] : k \in 0..n}

OptionalFields ==
    { [frame |-> FrameData, error |-> "", isScenic |-> FALSE],
      [frame |-> "", error |-> "", isScenic |-> FALSE],
      [frame |-> "", error |-> "camera unavailable", isScenic |-> FALSE],
      [frame |-> FrameData, error |-> "", isScenic |-> TRUE] }

FormatScenes ==
    { [people |-> people, objects |-> objects, frame |-> f.frame,
       error |-> f.error, isScenic |-> f.isScenic] :
        people \in SeqsUpTo(Persons, MaxPeople),
        objects \in SeqsUpTo(ObjectNames, MaxObjects),
        f \in OptionalFields }

\* analyzeFrame builds its descriptor from the detections and the captured
\* frame (null when captureFrame fails); it sets neither error nor isScenic.
\* One with a captured frame and one without are followed.
FrameScenes == {SceneOnePerson, SceneNoFrame}

\* ------------------------------------------------- generateBasicDescription
NoDetectionText ==
    "The scene is visible but no specific objects or people are detected. The video appears to show general scenery or environmental elements."
ScenicText ==
    "This video shows a scenic view. The analysis system is focusing on the natural elements and landscape features of the scene."

PersonClause(person) ==
    LET age == IF person.annotation.ageRange = "" THEN "unknown age"
               ELSE person.annotation.ageRange
        expression == IF person.annotation.expression = "" THEN "neutral expression"
                      ELSE person.annotation.expression
        parts == <<"A person (" \o age \o ", " \o expression \o ") is "
                     \o person.pose \o " " \o person.position>>
                 \o (IF person.movement # "staying still"
                     THEN <<"they are " \o person.movement>> ELSE <<>>)
                 \o (IF person.activity # ""
                     THEN <<"while " \o person.activity>> ELSE <<>>)
    IN  Join(parts, ", ") \o "."

\* Mutant: only the first object is named.
ObjectsClauseFirstOnly(objects) == "The scene contains " \o objects[1] \o "."

ObjectsClause(objects) == "The scene contains " \o Join(objects, ", ") \o "."

\* Mutant: only the first person is described.
BasicDescriptionFirstPersonOnly(sceneData) ==
    IF sceneData.error # "" THEN sceneData.error
    ELSE IF sceneData.isScenic THEN ScenicText
    ELSE IF Len(sceneData.people) = 0 /\ Len(sceneData.objects) = 0 THEN NoDetectionText
    ELSE LET descriptions ==
                 (IF Len(sceneData.people) > 0
                  THEN <<PersonClause(sceneData.people[1])>> ELSE <<>>)
                 \o (IF Len(sceneData.objects) > 0
                     THEN <<ObjectsClause(sceneData.objects)>> ELSE <<>>)
         IN  Join(descriptions, " ")

\* Mutant: the empty scene is not tested for.
BasicDescriptionNoEmptyCase(sceneData) ==
    IF sceneData.error # "" THEN sceneData.error
    ELSE IF sceneData.isScenic THEN ScenicText
    ELSE LET descriptions ==
                 [i \in 1..Len(sceneData.people) |-> PersonClause(sceneData.people[i])]
                 \o (IF Len(sceneData.objects) > 0
                     THEN <<ObjectsClause(sceneData.objects)>> ELSE <<>>)
         IN  Join(descriptions, " ")

\* The joined text starts with "A person" or "The scene" and ends with ".",
\* so the final trim() removes nothing.
GenerateBasicDescription(sceneData) ==
    IF sceneData.error # "" THEN sceneData.error
    ELSE IF sceneData.isScenic THEN ScenicText
    ELSE IF Len(sceneData.people) = 0 /\ Len(sceneData.objects) = 0 THEN NoDetectionText
    ELSE LET descriptions ==
                 [i \in 1..Len(sceneData.people) |-> PersonClause(sceneData.people[i])]
                 \o (IF Len(sceneData.objects) > 0
                     THEN <<ObjectsClause(sceneData.objects)>> ELSE <<>>)
         IN  Join(descriptions, " ")

\* ------------------------------------------------------ the provider's call
\* What openai.chat.completions.create does: it returns a completion whose
\* content the provider chooses (the code puts no bound on its length), or it
\* fails with the provider's rate-limit error, or with any other error.
\* A content is its text without surrounding whitespace, and its full length.
Contents ==
    { [text |-> "", len |-> 0],
      [text |-> "A quiet room.", len |-> 450],
      [text |-> "A long report.", len |-> 75000] }
UnableText == [text |-> "Unable to analyze scene.", len |-> 24]

Outcomes ==
    [kind : {"ok"}, content : Contents]
    \cup { [kind |-> "rate_limit", content |-> UnableText],
           [kind |-> "other", content |-> UnableText] }

\* The outcomes tried under the webcam loop: a completion and a failure.
FrameOutcomes ==
    { [kind |-> "ok", content |-> [text |-> "A quiet room.", len |-> 450]],
      [kind |-> "other", content |-> UnableText] }

RateLimitMessage == "Rate limit exceeded. Please try again in a moment."
NetworkErrorMessage == "Connection error."

\* ------------------------------------------------------------------- state
VARIABLES
    openai,         \* TRUE iff createOpenAIClient returned a client
    currentTokens,  \* RATE_LIMIT.currentTokens
    lastResetAge,   \* Date.now() - RATE_LIMIT.lastReset
    queue,          \* RATE_LIMIT.queue, as the ids of the calls that pushed
    processing,     \* RATE_LIMIT.processing
    backoffTime,    \* RATE_LIMIT.backoffTime
    resetTimer,     \* time left until the setInterval callback fires
    resetWrites,    \* the fields of RATE_LIMIT the setInterval callback
                    \* assigned when it last ran ({} before its first run)
    workers,        \* the processQueue invocations suspended at an await
    calls,          \* every call of generateDetailedDescription, in call order
    sinceDone,      \* time since a provider request last ended, up to minSpacing
    isCameraEnabled, \* App state isCameraEnabled: the Webcam element is mounted
    isRecording,    \* App state isRecording
    isAnalyzing,    \* isAnalyzingRef.current
    lastAnalysisAge, \* Date.now() - lastAnalysisTimeRef.current, up to webcamInterval
    loopRef,        \* analysisLoopRef.current: "none" (undefined), or the handle
                    \* of a callback that is "pending" or has "fired"
    strayFrames,    \* pending requestAnimationFrame callbacks whose handle
                    \* analysisLoopRef no longer holds
    frames,         \* every analyzeFrame call of analyzeWebcamFrame, in start order
    sinceFrame,     \* time since the last of them started, up to webcamInterval
    previousPositions, \* model.ts previousPositions: id -> box centre, in
                    \* half pixels (twice the centre's coordinates)
    lastMovement,   \* the last call of detectMovement and what it returned
    lastSeenAge,    \* id -> time since previousPositions[id] was written, up
                    \* to purgeWindow + TimeStep
    videoPromise,   \* the promise analyzeVideo returned: "none" (no call yet),
                    \* "pending", "resolved" or "rejected"
    analysisStarted, \* analyzeVideo's analysisStarted
    videoEnded,     \* video.ended of analyzeVideo's video element
    interval,       \* analyzeVideo's setInterval: <<>> when not set or
                    \* cleared, else <<time left until its callback runs>>
    videoAge,       \* Date.now() - startTime of analyzeVideo
    videoFrames,    \* every analyzeFrame call of the interval callback
    detections      \* analyzeVideo's detections

queueVars == <<openai, currentTokens, lastResetAge, queue, processing,
               backoffTime, resetTimer, resetWrites, workers, calls, sinceDone>>
appVars == <<isCameraEnabled, isRecording, isAnalyzing, lastAnalysisAge,
             loopRef, strayFrames, frames, sinceFrame>>
trackVars == <<previousPositions, lastMovement, lastSeenAge>>
videoVars == <<videoPromise, analysisStarted, videoEnded, interval, videoAge,
               videoFrames, detections>>
vars == <<queueVars, appVars, trackVars, videoVars>>


\* ---------------------------------------------------------- call records
\* A call of generateDetailedDescription and the promise it returned.
\* resolves counts the values handed to the promise (returns of the async
\* function and calls of its resolve); only the first settles it.
\* attempts counts the provider requests started for it, ended lists how
\* they ended, backoffs counts the backoff waits made for it, retries is the
\* queue item's retries field.
NewCall(sceneData) ==
    [scene |-> sceneData, settled |-> FALSE, value |-> "", resolves |-> 0,
     queued |-> FALSE, attempts |-> 0, ended |-> <<>>, backoffs |-> 0,
     retries |-> 0]

Resolve(cs, id, text) ==
    LET c == cs[id]
    IN  [cs EXCEPT ![id] = [c EXCEPT !.settled = TRUE,
                                     !.value = IF c.settled THEN c.value ELSE text,
                                     !.resolves = c.resolves + 1]]

\* ------------------------------------------------- App.tsx: webcam sampler
\* The refs and the frame list, as one value the handlers' steps transform.
AppState ==
    [isAnalyzing |-> isAnalyzing, lastAnalysisAge |-> lastAnalysisAge,
     loopRef |-> loopRef, strayFrames |-> strayFrames, frames |-> frames,
     sinceFrame |-> sinceFrame]

SetApp(A) ==
    /\ isAnalyzing' = A.isAnalyzing
    /\ lastAnalysisAge' = A.lastAnalysisAge
    /\ loopRef' = A.loopRef
    /\ strayFrames' = A.strayFrames
    /\ frames' = A.frames
    /\ sinceFrame' = A.sinceFrame

\* clearAnalysis (lines 73-83), without the displayed texts.  Cancelling the
\* handle removes its callback if that is still pending.  A timestamp of 0
\* is older than any interval.  The frame analyses still awaited were
\* started before this stop.
ClearAnalysis(A) ==
    [A EXCEPT !.loopRef = "none", !.isAnalyzing = FALSE,
              !.lastAnalysisAge = webcamInterval,
              !.frames = [i \in 1..Len(A.frames) |->
                            IF A.frames[i].stage \in {"detect", "describe"}
                            THEN [A.frames[i] EXCEPT !.stale = TRUE]
                            ELSE A.frames[i]]]

\* analysisLoopRef.current = requestAnimationFrame(analyzeWebcamFrame): a
\* callback whose handle is overwritten stays pending.
RequestFrame(A) ==
    [A EXCEPT !.strayFrames = IF A.loopRef = "pending" THEN @ + 1 ELSE @,
              !.loopRef = "pending"]

\* Lines 186-195: whether a run of analyzeWebcamFrame reaches analyzeFrame.
StartsFrame(A, hasVideo) ==
    hasVideo /\ A.isAnalyzing /\ ~(A.lastAnalysisAge < webcamInterval)

\* A frame analysis: where analyzeFrame is suspended ("detect": awaiting
\* model.detect; "describe": awaiting generateDetailedDescription; "done",
\* "failed": it returned, it threw), the age of its currentTime while it is
\* suspended (up to webcamInterval), its call of generateDetailedDescription
\* (0: none), the time from the start of the frame before it to its own
\* start (up to webcamInterval), and, while it is suspended, whether
\* clearAnalysis has run since it started (stale).
NewFrame(gap) ==
    [stage |-> "detect", age |-> 0, call |-> 0, gap |-> gap, stale |-> FALSE]

Suspended(frame) == frame.stage \in {"detect", "describe"}

\* analyzeWebcamFrame (lines 185-198) up to its await or return.
AnalyzeWebcamFrame(A, hasVideo) ==
    IF ~hasVideo \/ ~A.isAnalyzing THEN ClearAnalysis(A)
    ELSE IF A.lastAnalysisAge < webcamInterval THEN RequestFrame(A)
    ELSE [A EXCEPT !.frames = Append(@, NewFrame(A.sinceFrame)),
                   !.sinceFrame = 0]

\* analyzeWebcamFrame (lines 199-220) after `await analyzeFrame` of frame i,
\* which returned a result (ok) or threw.
FrameEnd(A, i, ok) ==
    LET A1 == [A EXCEPT !.frames[i].stage = IF ok THEN "done" ELSE "failed",
                        !.frames[i].age = 0,
                        !.frames[i].stale = FALSE,
                        !.lastAnalysisAge =
                            IF ok /\ A.isAnalyzing THEN A.frames[i].age ELSE @]
    IN  IF A1.isAnalyzing THEN RequestFrame(A1) ELSE ClearAnalysis(A1)

\* The frame, if any, whose description promise is settled in cs.
Described(cs) ==
    {i \in 1..Len(frames) :
        frames[i].stage = "describe" /\ cs[frames[i].call].settled}

\* The continuations a settled promise releases run in the same handler.
AppAfterSettle(cs) ==
    IF Described(cs) = {} THEN UNCHANGED appVars
    ELSE /\ SetApp(FrameEnd(AppState, CHOOSE i \in Described(cs) : TRUE, TRUE))
         /\ UNCHANGED <<isCameraEnabled, isRecording>>

\* ------------------------------------------------- model.ts: analyzeVideo
\* The promise, the interval, the frame list and the detections, as one
\* value the handlers' steps transform.
VideoState ==
    [promise |-> videoPromise, interval |-> interval, frames |-> videoFrames,
     detections |-> detections]

SetVideo(V) ==
    /\ videoPromise' = V.promise
    /\ interval' = V.interval
    /\ videoFrames' = V.frames
    /\ detections' = V.detections

\* resolve and reject of analyzeVideo's promise: only the first settles it.
Settle(V, how) == [V EXCEPT !.promise = IF @ = "pending" THEN how ELSE @]

\* Lines 299-315: the detections pushed for the results of one frame, people
\* before objects, stamped with the time since startTime in ms.
Detected(sceneData, t) ==
    [n \in 1..Len(sceneData.people) |->
        [object |-> "person", timestamp |-> t,
         ageRange |-> sceneData.people[n].annotation.ageRange,
         expression |-> sceneData.people[n].annotation.expression]]
    \o [n \in 1..Len(sceneData.objects) |->
        [object |-> sceneData.objects[n], timestamp |-> t,
         ageRange |-> "", expression |-> ""]]

\* The interval callback (lines 298-315) after `await analyzeFrame` of frame
\* i returned the results of sceneData.
VideoFrameEnd(V, i, sceneData, t) ==
    [V EXCEPT !.frames[i].stage = "done",
              !.detections = @ \o Detected(sceneData, t)]

\* Its catch (lines 316-320) after analyzeFrame of frame i threw.
VideoFrameFails(V, i) ==
    Settle([V EXCEPT !.frames[i].stage = "failed", !.interval = <<>>],
           "rejected")

\* The video frame, if any, whose description promise is settled in cs.
VideoDescribed(cs) ==
    {i \in 1..Len(videoFrames) :
        videoFrames[i].stage = "describe" /\ cs[videoFrames[i].call].settled}

VideoAfterSettle(cs) ==
    IF VideoDescribed(cs) = {} THEN UNCHANGED videoVars
    ELSE LET i == CHOOSE i \in VideoDescribed(cs) : TRUE
         IN  /\ SetVideo(VideoFrameEnd(VideoState, i,
                                       cs[videoFrames[i].call].scene, videoAge))
             /\ UNCHANGED <<analysisStarted, videoEnded, videoAge>>

\* ------------------------------------------------------- setInterval reset
\* Mutant: the reset also throws the queued tasks away.
ResetWindowClearsQueue ==
    /\ resetTimer = 0
    /\ currentTokens' = 0
    /\ lastResetAge' = 0
    /\ backoffTime' = resetBackoff
    /\ resetWrites' = {"currentTokens", "lastReset", "backoffTime", "queue"}
    /\ resetTimer' = resetInterval
    /\ queue' = <<>>
    /\ UNCHANGED <<openai, processing, workers, calls, sinceDone>>
    /\ UNCHANGED <<appVars, trackVars, videoVars>>

\* Lines 34-38: the setInterval callback.
ResetWindow ==
    /\ resetTimer = 0
    /\ currentTokens' = 0
    /\ lastResetAge' = 0
    /\ backoffTime' = resetBackoff
    /\ resetWrites' = {"currentTokens", "lastReset", "backoffTime"}
    /\ resetTimer' = resetInterval
    /\ UNCHANGED <<openai, queue, processing, workers, calls, sinceDone>>
    /\ UNCHANGED <<appVars, trackVars, videoVars>>

\* ------------------------------------------------------------ processQueue
\* Mutant: the processing flag is not tested.
EntersWithoutFlag(isProcessing, q) == Len(q) # 0

\* Line 41: whether a call of processQueue goes on to become a worker.
ProcessQueueEnters(isProcessing, q) == ~(isProcessing \/ Len(q) = 0)

\* Mutant: the cooldown test is missing.
NeverCooling(tokens) == FALSE

\* Line 48: the cooldown test made at the top of every loop iteration.
CoolingDown(tokens) == tokens > CooldownLimit

\* Lines 49-50: how long the worker sleeps when cooling down.
CooldownWait(age) == Max(resetInterval - age, minCooldownWait)

\* Mutant: the loop takes the newest item instead of queue[0].
LoopHeadTakesLast(q, tokens, age) ==
    IF Len(q) = 0 THEN [pc |-> "exit", timer |-> 0, item |-> 0]
    ELSE IF CoolingDown(tokens)
         THEN [pc |-> "sleep", timer |-> CooldownWait(age), item |-> 0]
         ELSE [pc |-> "task", timer |-> 0, item |-> q[Len(q)]]

\* Mutant: the worker returns instead of sleeping out the cooldown.
LoopHeadLeavesWhenCooling(q, tokens, age) ==
    IF Len(q) = 0 \/ CoolingDown(tokens) THEN [pc |-> "exit", timer |-> 0, item |-> 0]
    ELSE [pc |-> "task", timer |-> 0, item |-> q[1]]

\* Lines 45-55: one pass from the loop condition to the next await, or to
\* the loop's exit.  The result says where the invocation is suspended
\* ("task": awaiting queueItem.task(), i.e. the provider request;
\* "sleep": awaiting a setTimeout) or that it returned ("exit").
LoopHead(q, tokens, age) ==
    IF Len(q) = 0 THEN [pc |-> "exit", timer |-> 0, item |-> 0]
    ELSE IF CoolingDown(tokens)
         THEN [pc |-> "sleep", timer |-> CooldownWait(age), item |-> 0]
         ELSE [pc |-> "task", timer |-> 0, item |-> q[1]]

\* The task started by a loop pass counts as one more provider request.
Started(cs, w) ==
    IF w.pc = "task" THEN [cs EXCEPT ![w.item].attempts = @ + 1] ELSE cs

\* Mutant: the tokens of the fallback text are counted too.
TaskCountsFailures(sceneData, o) ==
    IF o.kind = "ok"
    THEN LET description == IF o.content.len = 0 THEN UnableText ELSE o.content
         IN  [tokens |-> (description.len + 2) \div 3,
              resolved |-> TRUE, value |-> description.text, threw |-> "none"]
    ELSE [tokens |-> (Len(GenerateBasicDescription(sceneData)) + 2) \div 3,
          resolved |-> TRUE,
          value |-> GenerateBasicDescription(sceneData), threw |-> "none"]

\* Mutant: the task's catch logs the error and returns without resolving.
TaskDropsErrors(sceneData, o) ==
    IF o.kind = "ok"
    THEN LET description == IF o.content.len = 0 THEN UnableText ELSE o.content
         IN  [tokens |-> (description.len + 2) \div 3,
              resolved |-> TRUE, value |-> description.text, threw |-> "none"]
    ELSE [tokens |-> 0, resolved |-> FALSE, value |-> "", threw |-> "none"]

\* Mutant: the task has no catch of its own; the error reaches processQueue.
TaskRethrows(sceneData, o) ==
    IF o.kind = "ok"
    THEN LET description == IF o.content.len = 0 THEN UnableText ELSE o.content
         IN  [tokens |-> (description.len + 2) \div 3,
              resolved |-> TRUE, value |-> description.text, threw |-> "none"]
    ELSE [tokens |-> 0, resolved |-> FALSE, value |-> "", threw |-> o.kind]

\* Lines 124-184: what queueItem.task() does once the provider's call has
\* ended with outcome o: the tokens it adds, the value it resolves the
\* caller's promise with, and what it throws to processQueue ("none": it
\* returns).  Its own catch handles every error of the provider's call.
Task(sceneData, o) ==
    IF o.kind = "ok"
    THEN LET description == IF o.content.len = 0 THEN UnableText ELSE o.content
         IN  [tokens |-> (description.len + 2) \div 3,
              resolved |-> TRUE, value |-> description.text, threw |-> "none"]
    ELSE [tokens |-> 0, resolved |-> TRUE,
          value |-> GenerateBasicDescription(sceneData), threw |-> "none"]

\* Lines 68-71.
WaitTime(backoff, retries) == Min(maxBackoff, backoff * Pow2(retries))

\* Mutant: the backoff is halved without the floor.
HalvesWithoutFloor(backoff) == backoff \div 2

\* Line 57.
HalvedBackoff(backoff) == Max(backoffFloor, backoff \div 2)

\* Mutant: no pause after a task.
NoSpacingPause == [pc |-> "sleep", timer |-> 0, item |-> 0]

\* Line 82: the pause after a task that left the queue.
SpacingPause == [pc |-> "sleep", timer |-> minSpacing, item |-> 0]

\* Mutant: the worker removes the newest item (pop) instead of the head.
ShiftTakesLast(q) == IF Len(q) = 0 THEN q ELSE SubSeq(q, 1, Len(q) - 1)

\* Array.prototype.shift as lines 56, 65 and 78 use it: the array without
\* its first element; an empty array stays empty.
Shift(q) == IF Len(q) = 0 THEN q ELSE Tail(q)

\* Lines 56-82: processQueue from the end of `await queueItem.task()` to its
\* next await, given what the task threw.  cs and tokens are the call
\* records and the token count the task left behind.
AfterTask(id, t, cs, tokens) ==
    IF t.threw = "none"
    THEN [q |-> Shift(queue), cs |-> cs, backoff |-> HalvedBackoff(backoffTime),
          w |-> SpacingPause]
    ELSE IF t.threw = "rate_limit"
    THEN LET retries == cs[id].retries + 1
             cs1 == [cs EXCEPT ![id].retries = retries]
         IN  IF retries > maxRetries
             THEN LET cs2 == Resolve(cs1, id, RateLimitMessage)
                      w == LoopHead(Shift(queue), tokens, lastResetAge)
                  IN  [q |-> Shift(queue), cs |-> Started(cs2, w),
                       backoff |-> backoffTime, w |-> w]
             ELSE [q |-> queue, cs |-> [cs1 EXCEPT ![id].backoffs = @ + 1],
                   backoff |-> WaitTime(backoffTime, retries),
                   w |-> [pc |-> "sleep",
                          timer |-> WaitTime(backoffTime, retries), item |-> 0]]
    ELSE [q |-> Shift(queue),
          cs |-> Resolve(cs, id, "Error analyzing scene: " \o NetworkErrorMessage),
          backoff |-> backoffTime, w |-> SpacingPause]

\* A worker's place in `workers` after a step: gone when it returned.
Place(ws, k, w) ==
    IF w.pc = "exit"
    THEN SubSeq(ws, 1, k - 1) \o SubSeq(ws, k + 1, Len(ws))
    ELSE [ws EXCEPT ![k] = w]

\* The provider's call of worker k ends with outcome o; the task and then
\* processQueue run on to the next await.
RequestDone(k, o) ==
    /\ k \in 1..Len(workers)
    /\ workers[k].pc = "task"
    /\ LET id == workers[k].item
           t == Task(calls[id].scene, o)
           tokens == currentTokens + t.tokens
           cs0 == [calls EXCEPT ![id].ended = Append(@, o.kind)]
           cs == IF t.resolved THEN Resolve(cs0, id, t.value) ELSE cs0
           a == AfterTask(id, t, cs, tokens)
       IN  /\ currentTokens' = tokens
           /\ queue' = a.q
           /\ calls' = a.cs
           /\ backoffTime' = a.backoff
           /\ workers' = Place(workers, k, a.w)
           /\ processing' = IF a.w.pc = "exit" THEN FALSE ELSE processing
           /\ AppAfterSettle(a.cs)
           /\ VideoAfterSettle(a.cs)
    /\ sinceDone' = 0
    /\ UNCHANGED <<openai, lastResetAge, resetTimer, resetWrites>>
    /\ UNCHANGED trackVars

\* The setTimeout a worker sleeps on fires: back to the loop condition.
WorkerWake(k) ==
    /\ k \in 1..Len(workers)
    /\ workers[k].pc = "sleep"
    /\ workers[k].timer = 0
    /\ LET w == LoopHead(queue, currentTokens, lastResetAge)
       IN  /\ workers' = Place(workers, k, w)
           /\ calls' = Started(calls, w)
           /\ processing' = IF w.pc = "exit" THEN FALSE ELSE processing
    /\ UNCHANGED <<resetWrites, openai, currentTokens, lastResetAge, queue, backoffTime,
                   resetTimer, sinceDone>>
    /\ UNCHANGED <<appVars, trackVars, videoVars>>

\* ---------------------------------------------- generateDetailedDescription
\* Lines 110-121: the value an un-queued call returns, "" when it queues.
ImmediateResult(hasClient, sceneData) ==
    IF ~hasClient THEN GenerateBasicDescription(sceneData)
    ELSE IF sceneData.error # "" THEN "Analysis paused: " \o sceneData.error
    ELSE IF sceneData.frame = "" THEN GenerateBasicDescription(sceneData)
    ELSE ""

\* Mutant: the missing client is not tested.
QueuesWithoutClient(hasClient, sceneData) ==
    sceneData.error = "" /\ sceneData.frame # ""

\* Mutant: the missing frame is not tested.
QueuesWithoutFrame(hasClient, sceneData) ==
    hasClient /\ sceneData.error = ""

\* Lines 110-112, 114, 118: whether the call goes on to line 123.
Queues(hasClient, sceneData) ==
    hasClient /\ sceneData.error = "" /\ sceneData.frame # ""

GenerateDetailedDescription(sceneData) ==
    /\ LET id == Len(calls) + 1
           cs == Append(calls, NewCall(sceneData))
       IN  IF ~Queues(openai, sceneData)
           THEN /\ calls' = Resolve(cs, id, ImmediateResult(openai, sceneData))
                /\ UNCHANGED <<queue, processing, workers>>
           ELSE LET q == Append(queue, id)
                    csq == [cs EXCEPT ![id].queued = TRUE]
                IN  /\ queue' = q
                    /\ IF ProcessQueueEnters(processing, q)
                       THEN LET w == LoopHead(q, currentTokens, lastResetAge)
                            IN  /\ processing' = TRUE
                                /\ workers' = Append(workers, w)
                                /\ calls' = Started(csq, w)
                       ELSE /\ calls' = csq
                            /\ UNCHANGED <<processing, workers>>
    /\ UNCHANGED <<resetWrites, openai, currentTokens, lastResetAge, backoffTime,
                   resetTimer, sinceDone>>

\* -------------------------------------------------------------------- time
TimersPending ==
    /\ resetTimer > 0
    /\ \A k \in 1..Len(workers) : workers[k].pc = "sleep" => workers[k].timer > 0
    /\ \A n \in 1..Len(interval) : interval[n] > 0

Tick ==
    /\ TimersPending
    /\ resetTimer' = resetTimer - TimeStep
    /\ lastResetAge' = lastResetAge + TimeStep
    /\ workers' = [k \in 1..Len(workers) |->
                     IF workers[k].pc = "sleep"
                     THEN [workers[k] EXCEPT !.timer = @ - TimeStep]
                     ELSE workers[k]]
    /\ sinceDone' = Min(minSpacing, sinceDone + TimeStep)
    /\ lastAnalysisAge' = Min(webcamInterval, lastAnalysisAge + TimeStep)
    /\ frames' = [i \in 1..Len(frames) |->
                    IF Suspended(frames[i])
                    THEN [frames[i] EXCEPT !.age = Min(webcamInterval, @ + TimeStep)]
                    ELSE frames[i]]
    /\ sinceFrame' = Min(webcamInterval, sinceFrame + TimeStep)
    /\ lastSeenAge' = [id \in DOMAIN lastSeenAge |->
                         Min(purgeWindow + TimeStep, lastSeenAge[id] + TimeStep)]
    /\ interval' = [n \in 1..Len(interval) |-> interval[n] - TimeStep]
    /\ videoAge' = IF analysisStarted THEN videoAge + TimeStep ELSE videoAge
    /\ UNCHANGED <<resetWrites, openai, currentTokens, queue, processing,
                   backoffTime, calls, isCameraEnabled, isRecording, isAnalyzing,
                   loopRef, strayFrames, previousPositions, lastMovement,
                   videoPromise, analysisStarted, videoEnded, videoFrames,
                   detections>>

\* ---------------------------------------------------------- detectMovement
\* Bounding boxes [x, y, width, height] in pixels.  A centre is kept in half
\* pixels, so that x + width / 2 is exact for an odd width.
FarBox == <<2100, 50, 40, 80>>
Boxes ==
    { <<x, y, w, 80>> : x \in {100, 110, 111}, y \in {50, 61}, w \in {40, 41} }
    \cup {FarBox}
\* The box of the person seen by the webcam loop.
FrameBoxes == { <<100, 50, 40, 80>> }
\* The ids positions are kept under (analyzePersonDetails passes 'person').
TrackIds == {"person", "dog"}

\* alert: whether the details of the person carry a sudden-movement alert.
NoMovement == [object |-> "", bbox |-> <<>>, result |-> "", alert |-> FALSE]

Abs(n) == IF n < 0 THEN -n ELSE n

\* Lines 60-61.
Centre(bbox) == [x |-> 2 * bbox[1] + bbox[3], y |-> 2 * bbox[2] + bbox[4]]

\* Mutant: a displacement of exactly the threshold counts as moving.
AxisLabelsInclusive(dx, dy) ==
    (IF Abs(dx) >= 2 * movementThreshold
     THEN <<IF dx > 0 THEN "moving right" ELSE "moving left">> ELSE <<>>)
    \o (IF Abs(dy) >= 2 * movementThreshold
        THEN <<IF dy > 0 THEN "moving down" ELSE "moving up">> ELSE <<>>)

\* Lines 72-80: the labels of the two axes, dx and dy in half pixels.
AxisLabels(dx, dy) ==
    (IF Abs(dx) > 2 * movementThreshold
     THEN <<IF dx > 0 THEN "moving right" ELSE "moving left">> ELSE <<>>)
    \o (IF Abs(dy) > 2 * movementThreshold
        THEN <<IF dy > 0 THEN "moving down" ELSE "moving up">> ELSE <<>>)

\* Lines 59-83: the position map detectMovement leaves and what it returns.
DetectMovement(positions, object, bbox) ==
    LET centre == Centre(bbox)
        stored == [id \in DOMAIN positions \cup {object} |->
                     IF id = object THEN centre ELSE positions[id]]
    IN  IF object \notin DOMAIN positions
        THEN [positions |-> stored, result |-> "just appeared"]
        ELSE LET dx == centre.x - positions[object].x
                 dy == centre.y - positions[object].y
                 movements == AxisLabels(dx, dy)
             IN  [positions |-> stored,
                  result |-> IF Len(movements) > 0
                             THEN Join(movements, " and ")
                             ELSE "standing still"]

TrackState ==
    [positions |-> previousPositions, ages |-> lastSeenAge, last |-> lastMovement]

SetTrack(T) ==
    /\ previousPositions' = T.positions
    /\ lastSeenAge' = T.ages
    /\ lastMovement' = T.last

\* One call of detectMovement.  Nothing in model.ts computes a speed or
\* sets an alert: the details of lines 158-170 carry none.
Observe(T, object, bbox) ==
    LET m == DetectMovement(T.positions, object, bbox)
    IN  [positions |-> m.positions,
         ages |-> [id \in DOMAIN m.positions |->
                     IF id = object THEN 0 ELSE T.ages[id]],
         last |-> [object |-> object, bbox |-> bbox, result |-> m.result,
                   alert |-> FALSE]]

\* model.ts lines 204-226: analyzePersonDetails for every person detected,
\* in order; the movement of each is what detectMovement('person', bbox)
\* returns.
RECURSIVE AnalyzePeople(_, _, _, _)
AnalyzePeople(T, people, boxes, done) ==
    IF Len(people) = 0 THEN [track |-> T, people |-> done]
    ELSE LET T1 == Observe(T, "person", boxes[1])
         IN  AnalyzePeople(T1, Tail(people), Tail(boxes),
                           Append(done, [people[1] EXCEPT
                                            !.movement = T1.last.result]))

\* ------------------------------------------------------- callers, handlers
\* Any caller of detectMovement with any id and box.
DetectMovementCall(object, bbox) ==
    /\ SetTrack(Observe(TrackState, object, bbox))
    /\ UNCHANGED <<queueVars, appVars, videoVars>>

\* Any caller (analyzeVideo's summary, a test) calls the entry point.
Call(sceneData) ==
    /\ Len(calls) < MaxCalls
    /\ GenerateDetailedDescription(sceneData)
    /\ UNCHANGED <<appVars, trackVars, videoVars>>

\* One caller of a burst: a call that carries a frame and so is queued when
\* there is a client.
BurstCall ==
    /\ Len(calls) < MaxBurst
    /\ GenerateDetailedDescription(SceneOnePerson)
    /\ UNCHANGED <<appVars, trackVars, videoVars>>

\* Mutant: stopping the recording also empties the description queue.
ToggleRecordingDropsQueue ==
    /\ isCameraEnabled
    /\ IF ~isRecording
       THEN LET A == [ClearAnalysis(AppState) EXCEPT !.isAnalyzing = TRUE]
            IN  /\ Len(frames) < MaxFrames
                /\ isRecording' = TRUE
                /\ SetApp(AnalyzeWebcamFrame(A, isCameraEnabled))
                /\ UNCHANGED queue
       ELSE /\ isRecording' = FALSE
            /\ SetApp(ClearAnalysis(AppState))
            /\ queue' = <<>>
    /\ UNCHANGED <<resetWrites, isCameraEnabled, openai, currentTokens, lastResetAge,
                   processing, backoffTime, resetTimer, workers, calls,
                   sinceDone>>
    /\ UNCHANGED <<trackVars, videoVars>>

\* The one call of a behaviour that tries the formatter.
FormatCall(sceneData) ==
    /\ calls = <<>>
    /\ GenerateDetailedDescription(sceneData)
    /\ UNCHANGED <<appVars, trackVars, videoVars>>

\* toggleRecording (lines 223-234).
ToggleRecording ==
    /\ isCameraEnabled
    /\ IF ~isRecording
       THEN LET A == [ClearAnalysis(AppState) EXCEPT !.isAnalyzing = TRUE]
            IN  /\ Len(frames) < MaxFrames
                /\ isRecording' = TRUE
                /\ SetApp(AnalyzeWebcamFrame(A, isCameraEnabled))
       ELSE /\ isRecording' = FALSE
            /\ SetApp(ClearAnalysis(AppState))
    /\ UNCHANGED <<isCameraEnabled, queueVars, trackVars, videoVars>>

\* toggleCameraEnabled (lines 114-120).
ToggleCameraEnabled ==
    /\ isCameraEnabled' = ~isCameraEnabled
    /\ IF isRecording
       THEN /\ isRecording' = FALSE
            /\ SetApp(ClearAnalysis(AppState))
       ELSE UNCHANGED <<isRecording, isAnalyzing, lastAnalysisAge, loopRef,
                        strayFrames, frames, sinceFrame>>
    /\ UNCHANGED <<queueVars, trackVars, videoVars>>

\* A requestAnimationFrame callback runs analyzeWebcamFrame: the one whose
\* handle analysisLoopRef holds, or one it no longer holds.
AnimationFrame ==
    /\ \/ /\ loopRef = "pending"
          /\ LET A == [AppState EXCEPT !.loopRef = "fired"]
             IN  /\ StartsFrame(A, isCameraEnabled) => Len(frames) < MaxFrames
                 /\ SetApp(AnalyzeWebcamFrame(A, isCameraEnabled))
       \/ /\ strayFrames > 0
          /\ LET A == [AppState EXCEPT !.strayFrames = @ - 1]
             IN  /\ StartsFrame(A, isCameraEnabled) => Len(frames) < MaxFrames
                 /\ SetApp(AnalyzeWebcamFrame(A, isCameraEnabled))
    /\ UNCHANGED <<isCameraEnabled, isRecording, queueVars, trackVars, videoVars>>

\* model.detect of frame i ends.  If it fails analyzeFrame throws; otherwise
\* analyzeFrame builds sceneData and calls generateDetailedDescription
\* (model.ts lines 201-234), whose promise is settled at once when the call
\* is not queued.
\* The people of the descriptor were detected in `boxes`.
DetectDone(i, ok, sceneData, boxes) ==
    /\ i \in 1..Len(frames)
    /\ frames[i].stage = "detect"
    /\ Len(boxes) = Len(sceneData.people)
    /\ IF ~ok
       THEN /\ SetApp(FrameEnd(AppState, i, FALSE))
            /\ UNCHANGED <<queueVars, trackVars>>
       ELSE LET analyzed == AnalyzePeople(TrackState, sceneData.people, boxes, <<>>)
                described == [sceneData EXCEPT !.people = analyzed.people]
                A == [AppState EXCEPT !.frames[i].call = Len(calls) + 1,
                                      !.frames[i].stage = "describe"]
            IN  /\ SetTrack(analyzed.track)
                /\ GenerateDetailedDescription(described)
                /\ IF Queues(openai, described)
                   THEN SetApp(A)
                   ELSE SetApp(FrameEnd(A, i, TRUE))
    /\ UNCHANGED <<isCameraEnabled, isRecording, videoVars>>

\* Number.prototype.toFixed(1) of t / 1000 for a time t in ms.
ToFixed1(t) ==
    LET tenths == (t + 50) \div 100
    IN  ToString(tenths \div 10) \o "." \o ToString(tenths % 10)

\* The values of a sequence without repetitions, in the order of their first
\* occurrence and without the missing ones: what lines 351-366 collect in a
\* Set.
RECURSIVE Distinct(_, _)
Distinct(values, seen) ==
    IF Len(values) = 0 THEN <<>>
    ELSE IF Head(values) \in seen \/ Head(values) = ""
         THEN Distinct(Tail(values), seen)
         ELSE <<Head(values)>> \o Distinct(Tail(values), seen \cup {Head(values)})

\* summarizeVideoAnalysis (lines 351-392): the descriptor built from the
\* detections.  It has no frame.
SummaryScene(ds) ==
    LET isPerson(d) == d.object = "person"
        isObject(d) == d.object # "person"
        persons == SelectSeq(ds, isPerson)
        others == SelectSeq(ds, isObject)
    IN  [people |->
            IF Len(persons) = 0 THEN <<>>
            ELSE <<[pose |-> "detected",
                    position |-> "from " \o ToFixed1(persons[1].timestamp)
                                 \o "s to "
                                 \o ToFixed1(persons[Len(persons)].timestamp)
                                 \o "s",
                    activity |-> "appeared " \o ToString(Len(persons)) \o " times",
                    movement |-> "throughout the video",
                    annotation |->
                        [ageRange |->
                            Join(Distinct([n \in 1..Len(persons) |->
                                              persons[n].ageRange], {}), ", "),
                         expression |->
                            Join(Distinct([n \in 1..Len(persons) |->
                                              persons[n].expression], {}), ", ")]]>>,
         objects |-> Distinct([n \in 1..Len(others) |-> others[n].object], {}),
         frame |-> "", error |-> "", isScenic |-> FALSE]

\* analyzeVideo (lines 262-277, 331-335) up to the events of its video
\* element.
AnalyzeVideo ==
    /\ videoPromise = "none"
    /\ videoPromise' = "pending"
    /\ UNCHANGED <<analysisStarted, videoEnded, interval, videoAge, videoFrames,
                   detections>>
    /\ UNCHANGED <<queueVars, appVars, trackVars>>

\* The video's loadeddata event (lines 278-329), the detection model being
\* loaded: the interval is set and the video plays.
LoadedData ==
    /\ videoPromise = "pending"
    /\ ~analysisStarted
    /\ analysisStarted' = TRUE
    /\ videoAge' = 0
    /\ interval' = <<videoInterval>>
    /\ UNCHANGED <<videoPromise, videoEnded, videoFrames, detections>>
    /\ UNCHANGED <<queueVars, appVars, trackVars>>

\* The video's error event (lines 331-334).
VideoError ==
    /\ videoPromise = "pending"
    /\ ~analysisStarted
    /\ videoPromise' = "rejected"
    /\ UNCHANGED <<analysisStarted, videoEnded, interval, videoAge, videoFrames,
                   detections>>
    /\ UNCHANGED <<queueVars, appVars, trackVars>>

\* The video reaches its end.
VideoEnds ==
    /\ analysisStarted
    /\ ~videoEnded
    /\ videoEnded' = TRUE
    /\ UNCHANGED <<videoPromise, analysisStarted, interval, videoAge, videoFrames,
                   detections>>
    /\ UNCHANGED <<queueVars, appVars, trackVars>>

\* The interval's callback (lines 288-298, 347-349, 395) up to its await or return.  At
\* the end of the video it clears the interval and resolves with the summary:
\* a fixed text without detections, else the description of a descriptor
\* that has no frame and so is never queued.  Otherwise it calls
\* analyzeFrame, whatever the callbacks before it are doing.
IntervalCallback ==
    /\ interval = <<0>>
    /\ IF videoEnded
       THEN /\ SetVideo(Settle([VideoState EXCEPT !.interval = <<>>], "resolved"))
            /\ IF Len(detections) = 0
               THEN UNCHANGED queueVars
               ELSE GenerateDetailedDescription(SummaryScene(detections))
       ELSE /\ Len(videoFrames) < MaxVideoFrames
            /\ SetVideo([VideoState EXCEPT
                            !.interval = <<videoInterval>>,
                            !.frames = Append(@, [stage |-> "detect", call |-> 0])])
            /\ UNCHANGED queueVars
    /\ UNCHANGED <<analysisStarted, videoEnded, videoAge>>
    /\ UNCHANGED <<appVars, trackVars>>

\* model.detect of video frame i ends.  If it fails analyzeFrame throws;
\* otherwise analyzeFrame builds sceneData and calls
\* generateDetailedDescription (lines 201-234), whose promise is settled at
\* once when the call is not queued.
VideoDetectDone(i, ok, sceneData, boxes) ==
    /\ i \in 1..Len(videoFrames)
    /\ videoFrames[i].stage = "detect"
    /\ Len(boxes) = Len(sceneData.people)
    /\ IF ~ok
       THEN /\ SetVideo(VideoFrameFails(VideoState, i))
            /\ UNCHANGED <<queueVars, trackVars>>
       ELSE LET analyzed == AnalyzePeople(TrackState, sceneData.people, boxes, <<>>)
                described == [sceneData EXCEPT !.people = analyzed.people]
                V == [VideoState EXCEPT !.frames[i].call = Len(calls) + 1,
                                        !.frames[i].stage = "describe"]
            IN  /\ SetTrack(analyzed.track)
                /\ GenerateDetailedDescription(described)
                /\ IF Queues(openai, described)
                   THEN SetVideo(V)
                   ELSE SetVideo(VideoFrameEnd(V, i, described, videoAge))
    /\ UNCHANGED <<analysisStarted, videoEnded, videoAge>>
    /\ UNCHANGED appVars

\* ----------------------------------------------------------- specification
Init ==
    /\ openai \in BOOLEAN
    /\ currentTokens = 0
    /\ lastResetAge = 0
    /\ queue = <<>>
    /\ processing = FALSE
    /\ backoffTime = initialBackoff
    /\ resetTimer = resetInterval
    /\ resetWrites = {}
    /\ workers = <<>>
    /\ calls = <<>>
    /\ sinceDone = minSpacing
    /\ isCameraEnabled = FALSE
    /\ isRecording = FALSE
    /\ isAnalyzing = FALSE
    /\ lastAnalysisAge = webcamInterval
    /\ loopRef = "none"
    /\ strayFrames = 0
    /\ frames = <<>>
    /\ sinceFrame = webcamInterval
    /\ previousPositions = <<>>
    /\ lastMovement = NoMovement
    /\ lastSeenAge = <<>>
    /\ videoPromise = "none"
    /\ analysisStarted = FALSE
    /\ videoEnded = FALSE
    /\ interval = <<>>
    /\ videoAge = 0
    /\ videoFrames = <<>>
    /\ detections = <<>>

\* The worker's timers, the window reset and the passing of time.
TimerNext ==
    \/ \E k \in 1..MaxCalls : WorkerWake(k)
    \/ ResetWindow
    \/ Tick

\* The queue under arbitrary callers.
Next ==
    \/ \E sceneData \in Scenes : Call(sceneData)
    \/ \E k \in 1..MaxCalls, o \in Outcomes : RequestDone(k, o)
    \/ TimerNext

Spec == Init /\ [][Next]_vars

\* Time under the webcam loop.
AppTick ==
    /\ lastResetAge < MaxAppTicks * TimeStep
    /\ Tick

\* The queue under the live-webcam loop of App.tsx, from the loading of the
\* page.
AppNext ==
    \/ ToggleCameraEnabled
    \/ ToggleRecording
    \/ AnimationFrame
    \/ \E i \in 1..MaxFrames, ok \in BOOLEAN, sceneData \in FrameScenes :
           \E boxes \in [1..Len(sceneData.people) -> FrameBoxes] :
               DetectDone(i, ok, sceneData, boxes)
    \/ \E k \in 1..MaxCalls, o \in FrameOutcomes : RequestDone(k, o)
    \/ \E k \in 1..MaxCalls : WorkerWake(k)
    \/ AppTick

AppSpec == Init /\ [][AppNext]_vars

\* Time under the webcam loop where the queue is left to drain: time is
\* followed for as long as the worker sleeps on a timer.
DrainTick ==
    /\ \E k \in 1..Len(workers) : workers[k].pc = "sleep"
    /\ Tick

AppRequestDone ==
    \E k \in 1..MaxCalls, o \in FrameOutcomes : RequestDone(k, o)

AppTimerNext ==
    \/ \E k \in 1..MaxCalls : WorkerWake(k)
    \/ DrainTick

\* The webcam loop with the queue left to drain: time passes and due timers
\* fire; every provider request ends.
AppDrainNext ==
    \/ ToggleCameraEnabled
    \/ ToggleRecording
    \/ AnimationFrame
    \/ \E i \in 1..MaxFrames, ok \in BOOLEAN, sceneData \in FrameScenes :
           \E boxes \in [1..Len(sceneData.people) -> FrameBoxes] :
               DetectDone(i, ok, sceneData, boxes)
    \/ AppRequestDone
    \/ AppTimerNext

FairAppSpec ==
    /\ Init
    /\ [][AppDrainNext]_vars
    /\ WF_vars(AppTimerNext)
    /\ WF_vars(AppRequestDone)

\* The calls and the provider outcomes followed under fairness: a call that
\* is queued and one that is not; a completion long enough to start a
\* cooldown, and both kinds of failure.
LiveScenes == {SceneOnePerson, SceneError}
LiveOutcomes ==
    { [kind |-> "ok", content |-> [text |-> "A long report.", len |-> 75000]],
      [kind |-> "rate_limit", content |-> UnableText],
      [kind |-> "other", content |-> UnableText] }

LiveRequestDone == \E k \in 1..MaxCalls, o \in LiveOutcomes : RequestDone(k, o)

LiveNext ==
    \/ \E sceneData \in LiveScenes : Call(sceneData)
    \/ LiveRequestDone
    \/ TimerNext

\* The queue under a burst of callers.
BurstNext ==
    \/ BurstCall
    \/ LiveRequestDone
    \/ TimerNext

BurstSpec == Init /\ [][BurstNext]_vars

\* What model.detect finds in a frame of the uploaded video: two people, or
\* objects only; and where it finds the people.
SceneTwoPeople ==
    [people |-> <<PersonLeft, PersonStill>>, objects |-> <<"cup">>,
     frame |-> FrameData, error |-> "", isScenic |-> FALSE]
VideoScenes == {SceneTwoPeople, SceneObjects}
VideoBoxes == {<<100, 50, 40, 80>>, <<300, 50, 40, 80>>}

\* Time while an uploaded video is analysed.
VideoTick ==
    /\ lastResetAge < MaxVideoTicks * TimeStep
    /\ Tick

\* analyzeVideo of one uploaded file, and the queue under it.
VideoNext ==
    \/ AnalyzeVideo
    \/ LoadedData
    \/ VideoError
    \/ VideoEnds
    \/ IntervalCallback
    \/ \E i \in 1..MaxVideoFrames, ok \in BOOLEAN, sceneData \in VideoScenes :
           \E boxes \in [1..Len(sceneData.people) -> VideoBoxes] :
               VideoDetectDone(i, ok, sceneData, boxes)
    \/ \E k \in 1..MaxCalls, o \in FrameOutcomes : RequestDone(k, o)
    \/ \E k \in 1..MaxCalls : WorkerWake(k)
    \/ VideoTick

VideoSpec == Init /\ [][VideoNext]_vars

\* The fallback formatter under one call with any descriptor: reached
\* without a client, without a frame, and when the provider's call fails.
FormatNext ==
    \/ \E sceneData \in FormatScenes : FormatCall(sceneData)
    \/ LiveRequestDone

FormatSpec == Init /\ [][FormatNext]_vars

\* Time while the position map is followed.
TrackTick ==
    /\ lastResetAge < MaxTrackTicks * TimeStep
    /\ Tick

\* The position map under any caller of detectMovement.
TrackNext ==
    \/ \E object \in TrackIds, bbox \in Boxes : DetectMovementCall(object, bbox)
    \/ TrackTick

TrackSpec == Init /\ [][TrackNext]_vars

\* Time passes and due timers fire; every provider request ends.
Fairness ==
    /\ WF_vars(TimerNext)
    /\ WF_vars(LiveRequestDone)

FairSpec == Init /\ [][LiveNext]_vars /\ Fairness

\* ------------------------------------------------------------------ claims
CallIds == 1..Len(calls)

InFlight == {k \in 1..Len(workers) : workers[k].pc = "task"}
QueueIds == {queue[n] : n \in 1..Len(queue)}

\* C1: every call of generateDetailedDescription returns a promise that is
\* eventually resolved with a string, and that is handed a value once only,
\* whatever the provider's call does and whatever state the limiter is in.
ResolvedOnce(id) ==
    id \in CallIds /\ calls[id].settled /\ calls[id].resolves = 1

EveryCallResolvesOnce ==
    /\ \A id \in 1..MaxCalls : (id \in CallIds) ~> ResolvedOnce(id)
    /\ [](\A id \in CallIds : calls[id].resolves <= 1)

\* A call made after a completion had taken the tokens over the cooldown
\* limit has had its request and has been resolved.
ResolvedAfterCooldown ==
    \E a, b \in CallIds :
        /\ a < b
        /\ calls[a].ended = <<"ok">>
        /\ calls[a].value = "A long report."
        /\ calls[b].ended # <<>>
        /\ ResolvedOnce(b)

\* C2: at most one provider request is in flight in every reachable state.
AtMostOneInFlight == Cardinality(InFlight) <= 1

\* A request is in flight while another task waits behind it in the queue.
InFlightWithTaskWaiting == Cardinality(InFlight) = 1 /\ Len(queue) >= 2

\* C3: of two queued tasks, the one enqueued later has no request started
\* before the earlier one has its outcome and has left the queue.
FifoDispatch ==
    \A a, b \in CallIds :
        (a < b /\ calls[a].queued /\ calls[b].queued /\ calls[b].attempts > 0)
            => (calls[a].settled /\ a \notin QueueIds)

\* Two tasks waited in the queue behind a finished one; the earlier of the
\* two has its request in flight and the later one still waits.
SecondTaskDispatched ==
    \E a, b \in CallIds :
        /\ queue = <<a, b>>
        /\ calls[a].attempts > 0 /\ calls[b].attempts = 0
        /\ \E k \in InFlight : workers[k].item = a
        /\ \E c \in CallIds : c < a /\ calls[c].queued /\ calls[c].settled


\* C4: two webcam frame analyses that call generateDetailedDescription are
\* started at least webcamInterval apart.
RECURSIVE GapSum(_, _)
GapSum(i, j) == IF i >= j THEN 0 ELSE frames[j].gap + GapSum(i, j - 1)

SamplerSpacing ==
    \A i, j \in 1..Len(frames) :
        (i < j /\ frames[i].call # 0 /\ frames[j].call # 0)
            => GapSum(i, j) >= webcamInterval

\* Rate-limit errors among the ways the requests of a call ended.
RateLimits(c) == Cardinality({n \in 1..Len(c.ended) : c.ended[n] = "rate_limit"})

ModelTexts == {c.text : c \in (Contents \cup {UnableText}) \ {[text |-> "", len |-> 0]}}

\* C5: a queued task whose request fails with the rate-limit error k times
\* (1 <= k <= maxRetries) and then succeeds stays pending at the head of the
\* queue through the failures, and is resolved with the model's text after
\* exactly k backoff waits.
RetryThenSuccess ==
    \A id \in CallIds :
        LET c == calls[id]
            k == RateLimits(c)
        IN  (k \in 1..maxRetries /\ \A n \in 1..Len(c.ended) : c.ended[n] # "other")
                => IF k = Len(c.ended)
                   THEN ~c.settled /\ queue # <<>> /\ queue[1] = id
                   ELSE c.settled => (c.value \in ModelTexts /\ c.backoffs = k)

\* C6: a queued task whose request fails with the rate-limit error every
\* time is attempted at most maxRetries + 1 times, and is then out of the
\* queue and resolved with the rate-limit message.
RetriesExhausted ==
    \A id \in CallIds :
        LET c == calls[id]
        IN  (c.ended # <<>> /\ RateLimits(c) = Len(c.ended))
                => /\ c.attempts <= maxRetries + 1
                   /\ c.settled =>
                        /\ c.value = RateLimitMessage
                        /\ Len(c.ended) = maxRetries + 1
                        /\ id \notin QueueIds

\* C7: a queued task whose request fails with an error that is not the
\* rate-limit error has had exactly one request, is resolved with the
\* fallback description of its own scene descriptor and is out of the queue.
HardFailureFallsBack ==
    \A id \in CallIds :
        LET c == calls[id]
        IN  (\E n \in 1..Len(c.ended) : c.ended[n] = "other")
                => /\ c.attempts = 1
                   /\ c.ended = <<"other">>
                   /\ c.settled
                   /\ c.resolves = 1
                   /\ c.value = GenerateBasicDescription(c.scene)
                   /\ id \notin QueueIds

\* Two queued tasks with different descriptors have both failed hard.
TwoHardFailures ==
    \E a, b \in CallIds :
        /\ calls[a].ended = <<"other">>
        /\ calls[b].ended = <<"other">>
        /\ calls[a].scene # calls[b].scene

\* A provider request was started in this step.
Attempts(cs, id) == IF id \in 1..Len(cs) THEN cs[id].attempts ELSE 0
Dispatches == \E id \in 1..Len(calls') : Attempts(calls', id) > Attempts(calls, id)

\* C8: while currentTokens exceeds the cooldown limit no request is started
\* and the head of the queue stays where it is; a request is started only
\* with currentTokens at or below the limit.
CooldownHoldsHead ==
    [][/\ (currentTokens > CooldownLimit /\ queue # <<>>)
            => (queue' # <<>> /\ queue'[1] = queue[1] /\ ~Dispatches)
       /\ Dispatches => currentTokens' <= CooldownLimit]_vars

\* The worker sleeps until the reset with a task at the head of the queue.
CoolingDownWithHead ==
    /\ currentTokens > CooldownLimit
    /\ queue # <<>>
    /\ calls[queue[1]].attempts = 0
    /\ \E k \in 1..Len(workers) :
          workers[k].pc = "sleep" /\ workers[k].timer > minSpacing

\* C9: a request is started only when minSpacing has passed since the
\* request before it ended.
MinimumSpacing == [][Dispatches => sinceDone >= minSpacing]_vars

\* A queued task's request has been started after the task before it ended.
DispatchedAfterAnother ==
    \E a, b \in CallIds :
        a < b /\ calls[a].ended # <<>> /\ calls[b].attempts > 0

\* C10: without a client, every call is resolved with the fallback
\* description of its own scene descriptor, nothing is queued and no
\* request is started.
NoClientFallsBack ==
    ~openai =>
        /\ queue = <<>>
        /\ workers = <<>>
        /\ ~processing
        /\ \A id \in CallIds :
              /\ ResolvedOnce(id)
              /\ calls[id].value = GenerateBasicDescription(calls[id].scene)
              /\ ~calls[id].queued
              /\ calls[id].attempts = 0

\* Without a client, a call with a frame and a call with an error are made.
NoClientCalls ==
    /\ ~openai
    /\ \E a, b \in CallIds :
          calls[a].scene = SceneOnePerson /\ calls[b].scene = SceneError

\* C11 as stated: with a client, of any two calls the earlier one is
\* resolved no later than the later one.
CompletionInCallOrder ==
    openai =>
        \A a, b \in CallIds : (a < b /\ calls[b].settled) => calls[a].settled

\* C11: of two calls that are both queued, the earlier one is resolved no
\* later than the later one.
QueuedCompletionInOrder ==
    \A a, b \in CallIds :
        (a < b /\ calls[a].queued /\ calls[b].queued /\ calls[b].settled)
            => calls[a].settled

\* The earlier of two queued calls is resolved while the later one, queued
\* behind it, still waits for its request.
EarlierResolvedFirst ==
    \E a, b \in CallIds :
        /\ a < b /\ calls[a].queued /\ calls[b].queued
        /\ calls[a].settled /\ ~calls[b].settled
        /\ calls[b].attempts = 0
        /\ b \in QueueIds

\* C12: stopping the recording leaves the queue, the worker and the calls
\* as they are, and every task that is queued while the recording is stopped
\* has its request started and its promise resolved.
StopKeepsQueuedWork ==
    /\ [][(isRecording /\ ~isRecording')
            => (queue' = queue /\ workers' = workers /\ calls' = calls)]_vars
    /\ \A id \in 1..MaxFrames :
          (id \in CallIds /\ ~isRecording /\ calls[id].queued)
              ~> (ResolvedOnce(id) /\ calls[id].attempts > 0)

\* The recording is stopped with one task in flight and another one waiting
\* in the queue.
StoppedWithQueuedWork ==
    /\ ~isRecording
    /\ Len(queue) > 1
    /\ InFlight # {}
    /\ \E id \in QueueIds : calls[id].attempts = 0 /\ ~calls[id].settled

\* Calls whose promise was resolved with the result of
\* generateBasicDescription(sceneData): without a client, without a frame,
\* or after the provider's call failed.
Formatted ==
    {id \in CallIds :
        /\ calls[id].settled
        /\ \/ ~openai
           \/ ~calls[id].queued /\ calls[id].scene.error = ""
           \/ calls[id].queued /\ calls[id].ended # <<"ok">>}

NothingDetected(sceneData) ==
    sceneData.people = <<>> /\ sceneData.objects = <<>>

\* C13 as stated: for every descriptor with no people and no objects the
\* formatter returns the fixed sentence, whatever the other fields are.
EmptySceneAlwaysFixedSentence ==
    \A id \in Formatted :
        NothingDetected(calls[id].scene) => calls[id].value = NoDetectionText

\* C13: for every descriptor with no people and no objects, no error and
\* isScenic not set, the formatter returns the fixed, non-empty sentence,
\* with and without a frame.
EmptySceneFixedSentence ==
    \A id \in Formatted :
        (/\ NothingDetected(calls[id].scene)
         /\ calls[id].scene.error = ""
         /\ ~calls[id].scene.isScenic)
            => (calls[id].value = NoDetectionText /\ Len(calls[id].value) > 0)

\* The provider's call of an empty scene with a frame failed and the call got
\* the formatter's text.
EmptySceneFormatted ==
    \E id \in Formatted :
        /\ NothingDetected(calls[id].scene)
        /\ calls[id].scene.frame # ""
        /\ ~calls[id].scene.isScenic
        /\ calls[id].ended = <<"other">>

\* Where pat occurs in text, and the i-th of these places.
Starts(text, pat) ==
    {i \in 1..(Len(text) - Len(pat) + 1) : SubSeq(text, i, i + Len(pat) - 1) = pat}
Contains(text, pat) == Starts(text, pat) # {}
Nth(S, i) == CHOOSE x \in S : Cardinality({y \in S : y < x}) = i - 1

\* The i-th person clause of a text: from the i-th "A person (" up to the
\* next one, or to the end of the text.
PersonStarts(text) == Starts(text, "A person (")
NthPersonClause(text, i) ==
    LET S == PersonStarts(text)
    IN  SubSeq(text, Nth(S, i),
               IF i < Cardinality(S) THEN Nth(S, i + 1) - 1 ELSE Len(text))

\* The text has one person clause for each of the people, the i-th naming
\* the i-th person's age range and expression.
OnePersonClauseEach(people, text) ==
    /\ Cardinality(PersonStarts(text)) = Len(people)
    /\ \A i \in 1..Len(people) :
          LET a == people[i].annotation
              clause == NthPersonClause(text, i)
          IN  /\ Contains(clause, a.ageRange)
              /\ Contains(clause, a.expression)
              /\ (a.ageRange # "" /\ a.expression # "")
                    => Starts(clause, "A person (" \o a.ageRange \o ", "
                                      \o a.expression \o ") is ") = {1}

\* C14 as stated: for every descriptor with N people the formatter's text
\* has exactly N person clauses, the i-th with the i-th person's age range
\* and expression.
PersonClausesAlways ==
    \A id \in Formatted :
        OnePersonClauseEach(calls[id].scene.people, calls[id].value)

\* C14: for every descriptor with N people, no error and isScenic not set,
\* the formatter's text has exactly N person clauses, the i-th with the i-th
\* person's age range and expression.
PersonClauses ==
    \A id \in Formatted :
        (calls[id].scene.error = "" /\ ~calls[id].scene.isScenic)
            => OnePersonClauseEach(calls[id].scene.people, calls[id].value)

\* Two different people and an object were formatted.
TwoPeopleFormatted ==
    \E id \in Formatted :
        /\ calls[id].scene.people = <<PersonStill, PersonLeft>>
        /\ calls[id].scene.objects # <<>>
        /\ calls[id].scene.error = "" /\ ~calls[id].scene.isScenic
        /\ Cardinality(PersonStarts(calls[id].value)) = MaxPeople

\* The names occur in the text one after the other, from place `from` on.
RECURSIVE NamedInOrder(_, _, _)
NamedInOrder(text, names, from) ==
    \/ names = <<>>
    \/ \E p \in Starts(text, names[1]) :
          p >= from /\ NamedInOrder(text, Tail(names), p + Len(names[1]))

\* The text has one objects sentence that names every object in order when
\* there are objects, and none when there are none.
ObjectsStarts(text) == Starts(text, "The scene contains ")
ObjectsSentenceIff(objects, text) ==
    IF objects = <<>>
    THEN ObjectsStarts(text) = {}
    ELSE /\ Cardinality(ObjectsStarts(text)) = 1
         /\ \A p \in ObjectsStarts(text) : NamedInOrder(text, objects, p)

\* C15 as stated: for every descriptor the formatter's text has one objects
\* sentence naming every object in order if and only if there are objects.
ObjectsSentenceAlways ==
    \A id \in Formatted :
        ObjectsSentenceIff(calls[id].scene.objects, calls[id].value)

\* C15: for every descriptor with no error and isScenic not set, the
\* formatter's text has one objects sentence naming every object in order if
\* and only if there are objects.
ObjectsSentence ==
    \A id \in Formatted :
        (calls[id].scene.error = "" /\ ~calls[id].scene.isScenic)
            => ObjectsSentenceIff(calls[id].scene.objects, calls[id].value)

\* Two objects after a person were formatted.
TwoObjectsFormatted ==
    \E id \in Formatted :
        /\ calls[id].scene.objects = <<"cup", "chair">>
        /\ Len(calls[id].scene.people) = 1
        /\ calls[id].scene.error = "" /\ ~calls[id].scene.isScenic
        /\ ObjectsStarts(calls[id].value) # {}

\* The step is the successful return of call id's request, which adds the
\* estimate of the returned text to the counter.
ReturnsText(id) ==
    /\ id \in CallIds
    /\ Len(calls'[id].ended) = Len(calls[id].ended) + 1
    /\ calls'[id].ended[Len(calls'[id].ended)] = "ok"
CountsReturnedText(id) ==
    \E c \in Contents \cup {UnableText} :
        /\ c.len > 0
        /\ calls'[id].value = c.text
        /\ currentTokens' = currentTokens + (c.len + 2) \div 3

\* The step is the periodic reset.
WindowResets == resetTimer = 0 /\ resetTimer' = resetInterval /\ lastResetAge' = 0

\* C16: currentTokens changes only when a request returns successfully,
\* which adds the estimate of the returned text, and at the periodic reset,
\* which sets it to 0; it decreases at the reset only; and the reset is due
\* every resetInterval and can fire in every state of the queue.
TokenAccounting ==
    /\ [][/\ (currentTokens' # currentTokens)
               => ((\E id \in CallIds : ReturnsText(id)) \/ WindowResets)
          /\ \A id \in CallIds : ReturnsText(id) => CountsReturnedText(id)
          /\ WindowResets => currentTokens' = 0
          /\ (currentTokens' < currentTokens) => WindowResets]_vars
    /\ [](/\ lastResetAge + resetTimer = resetInterval
          /\ (resetTimer = 0) => ENABLED ResetWindow)

\* The reset has set a counter above the cooldown limit back to 0 while a
\* task waited in the queue for the cooldown to end.
ResetDuringCooldown ==
    /\ currentTokens = 0
    /\ lastResetAge = 0
    /\ \E id \in CallIds :
          calls[id].ended = <<"ok">> /\ calls[id].value = "A long report."
    /\ queue # <<>>
    /\ \E k \in 1..Len(workers) : workers[k].pc = "sleep"

\* The step is the n-th rate-limit failure of call id's request.
FailsRateLimited(id, n) ==
    /\ id \in CallIds
    /\ Len(calls'[id].ended) = Len(calls[id].ended) + 1
    /\ calls'[id].ended[Len(calls'[id].ended)] = "rate_limit"
    /\ RateLimits(calls'[id]) = n

\* C17: when the request of the head task fails with the rate-limit error
\* for the n-th time (n <= maxRetries), the task stays at the head of the
\* queue and the worker sleeps initialBackoff * 2^(n-1), at most maxBackoff,
\* before it retries the task.
BackoffDoubles ==
    [][\A id \in CallIds : \A n \in 1..maxRetries :
          FailsRateLimited(id, n)
              => /\ queue' # <<>> /\ queue'[1] = id
                 /\ \E k \in 1..Len(workers') :
                       /\ workers'[k].pc = "sleep"
                       /\ workers'[k].timer
                            = Min(maxBackoff, initialBackoff * Pow2(n - 1))]_vars

\* C18: in every reachable state backoffTime is at least 1000 and at most
\* maxBackoff.
BackoffWithinBounds == backoffFloor <= backoffTime /\ backoffTime <= maxBackoff

\* A request has returned, another has failed with the rate-limit error and
\* the window has been reset since.
BackoffAfterAllThree ==
    /\ \E a, b \in CallIds :
          calls[a].ended = <<"ok">> /\ calls[b].ended = <<"rate_limit">>
    /\ currentTokens = 0
    /\ lastResetAge > 0

\* The step is a call of detectMovement: lastMovement' is the call, with its
\* result.  (A call that repeats the last one with the same result changes
\* nothing.)
Observes == lastMovement' # lastMovement

\* The label the claim gives a displacement of dx, dy pixels doubled.
DirectionOf(d, positive, negative) ==
    IF d > 2 * movementThreshold THEN positive
    ELSE IF d < -(2 * movementThreshold) THEN negative
    ELSE ""
LabelOf(dx, dy) ==
    LET h == DirectionOf(dx, "moving right", "moving left")
        v == DirectionOf(dy, "moving down", "moving up")
    IN  IF h = "" /\ v = "" THEN "standing still"
        ELSE IF v = "" THEN h
        ELSE IF h = "" THEN v
        ELSE h \o " and " \o v

\* C19: detectMovement stores the box centre under the id, leaves the other
\* ids alone, returns 'just appeared' on the first observation of the id and
\* otherwise the labels of the axes on which the centre moved by more than
\* movementThreshold, or 'standing still'.
MovementLabels ==
    [][Observes =>
         LET object == lastMovement'.object
             bbox == lastMovement'.bbox
             cx == 2 * bbox[1] + bbox[3]
             cy == 2 * bbox[2] + bbox[4]
         IN  /\ object \in DOMAIN previousPositions'
             /\ previousPositions'[object] = [x |-> cx, y |-> cy]
             /\ \A id \in DOMAIN previousPositions' \ {object} :
                   /\ id \in DOMAIN previousPositions
                   /\ previousPositions'[id] = previousPositions[id]
             /\ lastMovement'.result =
                   IF object \notin DOMAIN previousPositions
                   THEN "just appeared"
                   ELSE LabelOf(cx - previousPositions[object].x,
                                cy - previousPositions[object].y)]_vars

\* A box moved on both axes, half a pixel more than the threshold to the
\* right, while another id is tracked too.
MovedOnBothAxes ==
    /\ lastMovement.object = "person"
    /\ lastMovement.bbox = <<110, 50, 41, 80>>
    /\ lastMovement.result = "moving right and moving up"
    /\ "dog" \in DOMAIN previousPositions

QueueHasWorker ==
    /\ Len(queue) > 0 => processing
    /\ processing <=> Len(workers) > 0
    /\ \A k \in 1..Len(workers) : workers[k].pc \in {"task", "sleep"}
    /\ \A k \in 1..Len(workers) :
          workers[k].pc = "task" => Len(queue) > 0 /\ workers[k].item = queue[1]

\* C22 witness: a call was enqueued between the end of the first task and the
\* worker's return: it waits on the queue while the worker sleeps.
EnqueuedBeforeLoopExit ==
    /\ Len(calls) >= 2
    /\ calls[1].queued /\ calls[1].settled
    /\ Len(queue) > 0
    /\ \E k \in 1..Len(workers) : workers[k].pc = "sleep"

\* C23: the queue changes only by a push at its end or by the removal of its
\* head, the removed head's promise is resolved by the end of the step that
\* removes it, and no call that was queued and is no longer on the queue
\* has a pending promise.
RemovedOnlyWhenResolved ==
    [][/\ \/ queue' = queue
          \/ /\ Len(queue') = Len(queue) + 1
             /\ SubSeq(queue', 1, Len(queue)) = queue
          \/ /\ Len(queue) > 0
             /\ queue' = Tail(queue)
             /\ calls'[queue[1]].settled
       /\ \A id \in 1..Len(calls') :
             calls'[id].queued /\ ~calls'[id].settled
                => \E n \in 1..Len(queue') : queue'[n] = id]_vars

\* C23 witness: a task has left the queue, its promise resolved, while a
\* later task is still queued.
HeadRemovedResolved ==
    /\ Len(queue) > 0
    /\ \E id \in CallIds :
          /\ calls[id].queued /\ calls[id].settled
          /\ id \notin QueueIds
          /\ id < queue[1]

\* C26: a call whose descriptor carries an error or has no frame returns at
\* once: its promise is resolved in the step of the call, nothing is queued,
\* no request is started, and queue, processing, currentTokens and backoffTime
\* are left as they were.  With an error and a client the value is
\* 'Analysis paused: <error>'; with no error and no frame it is the fallback
\* formatter's text.
ErrorOrNoFrameReturnsAtOnce ==
    [][\A sceneData \in Scenes :
          (/\ Len(calls') = Len(calls) + 1
           /\ calls'[Len(calls')].scene = sceneData
           /\ sceneData.error # "" \/ sceneData.frame = "")
          => LET c == calls'[Len(calls')]
             IN  /\ c.settled /\ ~c.queued /\ c.attempts = 0
                 /\ SubSeq(calls', 1, Len(calls)) = calls
                 /\ UNCHANGED <<queue, processing, currentTokens, backoffTime,
                                workers>>
                 /\ openai /\ sceneData.error # ""
                       => c.value = "Analysis paused: " \o sceneData.error
                 /\ sceneData.error = ""
                       => c.value = GenerateBasicDescription(sceneData)]_vars

\* C26 witness: with a client, a call with an error or without a frame has
\* returned while an earlier, queued task was still waiting.
ReturnedAtOncePastTheQueue ==
    /\ openai
    /\ Len(queue) > 0
    /\ \E id \in CallIds :
          /\ calls[id].scene \in {SceneError, SceneNoFrame}
          /\ calls[id].settled /\ ~calls[id].queued
          /\ \E other \in CallIds : other < id /\ other \in QueueIds

\* The label detectMovement gives a person who has not moved.
NoMotionLabel ==
    LET bbox == CHOOSE b \in FrameBoxes : TRUE
    IN  DetectMovement([id \in {"person"} |-> Centre(bbox)], "person", bbox).result

\* C28: the formatter's clause for a person whose movement is the label
\* detectMovement gives for no motion has no ', they are MOVEMENT' part.
StillPersonHasNoMovementPart ==
    \A id \in Formatted :
        (calls[id].scene.error = "" /\ ~calls[id].scene.isScenic)
            => \A i \in 1..Len(calls[id].scene.people) :
                  calls[id].scene.people[i].movement = NoMotionLabel
                     => ~Contains(NthPersonClause(calls[id].value, i), ", they are ")

\* The queue items' retry counters are as they were.
RetriesUnchanged ==
    /\ Len(calls') = Len(calls)
    /\ \A id \in CallIds : calls'[id].retries = calls[id].retries

FramesInProgress == {i \in 1..Len(frames) : Suspended(frames[i])}

\* The analyzeWebcamFrame loops alive: the requestAnimationFrame callbacks
\* still to run and the runs suspended in analyzeFrame, each of which goes
\* on to line 216.
LoopsScheduled ==
    (IF loopRef = "pending" THEN 1 ELSE 0) + strayFrames
        + Cardinality(FramesInProgress)

\* C24: at most one analyzeFrame call of the webcam loop is in progress and
\* at most one analyzeWebcamFrame loop is scheduled, in every reachable state.
OneWebcamLoop ==
    /\ Cardinality(FramesInProgress) <= 1
    /\ LoopsScheduled <= 1

\* C25: when a frame analysis that was started before the recording was
\* stopped ends, lines 200-211 do not run for its result (the commentary is
\* not added to the messages, the annotations are not set) and
\* lastAnalysisTime is left as it was, whether or not the recording was
\* started again before the analysis ended.
LateResultIgnored ==
    [][\A i \in 1..Len(frames) :
          (frames[i].stale /\ Suspended(frames[i]) /\ ~Suspended(frames'[i]))
             => lastAnalysisAge' = lastAnalysisAge]_vars

\* The analyzeFrame calls of analyzeVideo's interval that have not returned.
VideoFramesInProgress ==
    {i \in 1..Len(videoFrames) : videoFrames[i].stage \in {"detect", "describe"}}

\* C29: the interval callback of analyzeVideo starts an analyzeFrame only
\* when no analyzeFrame it started earlier is still in progress.
IntervalWaitsForFrame ==
    [][Len(videoFrames') > Len(videoFrames) => VideoFramesInProgress = {}]_vars

\* C27: when analyzeFrame has handled a frame with two or more people, the
\* movement label of the last of them is 'just appeared' or the label of its
\* box against the position recorded before this frame, not against the
\* position of a person handled earlier in the same frame.
LabelsAgainstEarlierFrames ==
    [][(/\ Len(calls') = Len(calls) + 1
        /\ Len(calls'[Len(calls')].scene.people) >= 2
        /\ Observes)
          => LET people == calls'[Len(calls')].scene.people
                 label == people[Len(people)].movement
             IN  /\ label = lastMovement'.result
                 /\ label \in
                      {"just appeared",
                       DetectMovement(previousPositions, "person",
                                      lastMovement'.bbox).result}]_vars

====
